---- MODULE Spec2Model ----
(***************************************************************************)
(* Gym Workout Logger (src/PythonChal/Gym_app/gymworkoutlog.py).           *)
(*                                                                         *)
(* The Streamlit script is re-run from top to bottom on every user event.  *)
(* One action of Spec is one such run: the sidebar selection, load_data at *)
(* line 163, the form handler when the form was submitted, and the example *)
(* loader when its button was pressed.  The file system holds one          *)
(* location; the path box is free text, so it can be named under either   *)
(* backend.                                                                *)
(*                                                                         *)
(* Numbers are integers: weights are whole numbers of the weight unit, so  *)
(* sets * reps * weight is exact, as it is for such values in binary       *)
(* floating point.  Rounding of fractional weights is outside the model.   *)
(***************************************************************************)
EXTENDS Integers, Sequences, FiniteSets, TLC

VARIABLES
    storage_type,   \* sidebar: "CSV" or "SQLite" (line 27)
    storage_path,   \* sidebar: the path box (lines 37-48)
    files,          \* the file system: path -> content
    connOpen,       \* a sqlite3 connection was opened and never closed
    page,           \* what the last run did: event, messages, save outcome
    failed,         \* history: path -> a save_row on it raised
    appended,       \* history: path -> the rows saved there, while no save_row raised
    df_in,          \* add_week_columns / aggregation: the input frame
    graph_mode,     \* sidebar: graph mode (line 50)
    df_week,        \* the frame with week_start and week_label added
    agg             \* the aggregated frame handed to the chart

vars == <<storage_type, storage_path, files, connOpen, page, appended, failed,
          df_in, graph_mode, df_week, agg>>

storeVars == <<storage_type, storage_path, files, connOpen, page, appended, failed>>
aggVars == <<df_in, graph_mode, df_week, agg>>

----------------------------------------------------------------------------
(* Calendar dates.  A date object is its proleptic Gregorian ordinal       *)
(* (date.toordinal); its ISO text "YYYY-MM-DD" is the triple <<y, m, d>>,  *)
(* whose lexicographic order is the order of the zero-padded strings.      *)

IsLeap(y) == (y % 4 = 0) /\ ((y % 100 # 0) \/ (y % 400 = 0))

DaysInMonth(y, m) ==
    IF m = 2 THEN (IF IsLeap(y) THEN 29 ELSE 28)
    ELSE IF m \in {4, 6, 9, 11} THEN 30 ELSE 31

DaysBeforeYear(y) ==
    LET y1 == y - 1 IN y1 * 365 + (y1 \div 4) - (y1 \div 100) + (y1 \div 400)

\* days of the year before the first of month m
DaysBeforeMonth(y, m) ==
    <<0, 31, 59, 90, 120, 151, 181, 212, 243, 273, 304, 334>>[m]
    + (IF m > 2 /\ IsLeap(y) THEN 1 ELSE 0)

\* date(y, m, d) as an ordinal
ToOrdinal(y, m, d) == DaysBeforeYear(y) + DaysBeforeMonth(y, m) + d

\* date.isoformat() / strftime("%Y-%m-%d"): the ISO text of an ordinal,
\* by the 400/100/4/1 year cycles of the calendar
IsoFormat(n) ==
    LET n0 == n - 1
        n400 == n0 \div 146097
        r400 == n0 % 146097
        n100 == r400 \div 36524
        r100 == r400 % 36524
        n4 == r100 \div 1461
        r4 == r100 % 1461
        n1 == r4 \div 365
        r1 == r4 % 365
        year == n400 * 400 + n100 * 100 + n4 * 4 + n1 + 1
    IN  IF n1 = 4 \/ n100 = 4
        THEN <<year - 1, 12, 31>>
        ELSE LET month == CHOOSE m \in 1..12 :
                            /\ DaysBeforeMonth(year, m) <= r1
                            /\ r1 < DaysBeforeMonth(year, m) + DaysInMonth(year, m)
             IN  <<year, month, r1 - DaysBeforeMonth(year, month) + 1>>

\* pd.to_datetime on an ISO text: the date it names
ToDatetime(t) == ToOrdinal(t[1], t[2], t[3])

\* the weekday counted from Sunday = 0
WeekdaySundayFirst(n) == n % 7

\* Series.dt.weekday: Monday = 0 .. Sunday = 6
Weekday(n) == (n + 6) % 7

\* order of two week labels as strings
LabelLess(a, b) ==
    \/ a[1] < b[1]
    \/ a[1] = b[1] /\ a[2] < b[2]
    \/ a[1] = b[1] /\ a[2] = b[2] /\ a[3] < b[3]

----------------------------------------------------------------------------
(* Cells.  A text cell of the exercise column is a string in the file; in  *)
(* a DataFrame it is a string or NaN.                                      *)

StrCell(s) == [nan |-> FALSE, s |-> s]
NaN == [nan |-> TRUE, s |-> ""]

\* a row of a loaded frame: the date is a date object
FrameRow(d, ex, s, r, w, u, v) ==
    [date |-> d, exercise |-> ex, sets |-> s, reps |-> r, weight |-> w,
     weight_unit |-> u, total_volume |-> v]

----------------------------------------------------------------------------
(* add_week_columns (lines 148-157)                                        *)

WeekStart(d) == d - Weekday(d)

WithWeek(row) ==
    [date |-> row.date, exercise |-> row.exercise, sets |-> row.sets,
     reps |-> row.reps, weight |-> row.weight, weight_unit |-> row.weight_unit,
     total_volume |-> row.total_volume,
     week_start |-> WeekStart(row.date),
     week_label |-> IsoFormat(WeekStart(row.date))]

add_week_columns(frame) == [i \in 1..Len(frame) |-> WithWeek(frame[i])]

----------------------------------------------------------------------------
(* The file system.  A file is absent, zero bytes long ("empty"), CSV text *)
(* (a header line and data lines) or an SQLite database; "nodir" is a path *)
(* typed into the path box whose directory does not exist.  A stored row   *)
(* holds the date as ISO text and the exercise name as text.               *)

StorageTypes == {"CSV", "SQLite"}

default_csv == "workout_logs.csv"
\* the path box: one path, left or typed for either backend
Paths == {default_csv}

COLUMNS == <<"date", "exercise", "sets", "reps", "weight", "weight_unit", "total_volume">>

StoredRow(d, ex, s, r, w, u, v) ==
    [date |-> d, exercise |-> ex, sets |-> s, reps |-> r, weight |-> w,
     weight_unit |-> u, total_volume |-> v]

Absent == [kind |-> "absent", table |-> FALSE, rows |-> <<>>]
NoDir == [kind |-> "nodir", table |-> FALSE, rows |-> <<>>]
ZeroBytes == [kind |-> "empty", table |-> FALSE, rows |-> <<>>]
CsvFile(rows) == [kind |-> "csv", table |-> FALSE, rows |-> rows]
DbFile(table, rows) == [kind |-> "sqlite", table |-> table, rows |-> rows]

\* pandas' default na_values: the texts read_csv turns into NaN
NaValues == {"", "#N/A", "#N/A N/A", "#NA", "-1.#IND", "-1.#QNAN", "-NaN", "-nan",
             "1.#IND", "1.#QNAN", "<NA>", "N/A", "NA", "NULL", "NaN", "None",
             "n/a", "nan", "null"}

ParseCell(text) == IF text \in NaValues THEN NaN ELSE StrCell(text)

\* to_csv writes NaN as the empty text (na_rep = "")
FormatCell(cell) == IF cell.nan THEN "" ELSE cell.s

\* pd.read_csv(p) on an existing file.  The date column stays text.  A zero
\* byte file raises EmptyDataError, a database file a decoding error.
read_csv(f) ==
    IF f.kind = "csv"
    THEN [ok |-> TRUE,
          rows |-> [i \in 1..Len(f.rows) |->
                      [f.rows[i] EXCEPT !.exercise = ParseCell(f.rows[i].exercise)]]]
    ELSE [ok |-> FALSE, rows |-> <<>>]

\* df_all.to_csv(p, index=False): the text a frame is written as
to_csv(rows) ==
    CsvFile([i \in 1..Len(rows) |->
               [rows[i] EXCEPT !.exercise = FormatCell(rows[i].exercise)]])

\* df["date"] = pd.to_datetime(df["date"]).dt.date
NormalizeDate(row) == [row EXCEPT !.date = ToDatetime(row.date)]

init_empty_df == [status |-> "ok", columns |-> COLUMNS, rows |-> <<>>]

\* sqlite3.connect(path) followed by a statement: a missing file is created
\* with zero bytes
Connected(f) == IF f.kind = "absent" THEN ZeroBytes ELSE f

\* pd.read_sql_query("SELECT * FROM workouts", conn): raises when the file is
\* not a database or holds no workouts table
SelectOk(f) == f.kind = "sqlite" /\ f.table

\* load_data's CSV branch (lines 81-85): Path.exists() is false of a missing
\* file and of a path in a missing directory
load_csv(f) ==
    IF f.kind \in {"absent", "nodir"}
    THEN [frame |-> init_empty_df, file |-> f]
    ELSE LET r == read_csv(f) IN
         IF r.ok
         THEN [frame |-> [status |-> "ok", columns |-> COLUMNS,
                       rows |-> [i \in 1..Len(r.rows) |-> NormalizeDate(r.rows[i])]],
               file |-> f]
         ELSE [frame |-> [status |-> "error", columns |-> <<>>, rows |-> <<>>], file |-> f]

\* load_data's SQLite branch (lines 86-95): sqlite3.connect, outside the try,
\* raises OperationalError when the directory of the path does not exist
load_sqlite(f) ==
    IF f.kind = "nodir"
    THEN [frame |-> [status |-> "error", columns |-> <<>>, rows |-> <<>>], file |-> f]
    ELSE IF SelectOk(f)
    THEN [frame |-> [status |-> "ok", columns |-> COLUMNS,
                  rows |-> [i \in 1..Len(f.rows) |->
                              NormalizeDate([f.rows[i] EXCEPT
                                               !.exercise = StrCell(f.rows[i].exercise)])]],
          file |-> f]
    ELSE [frame |-> init_empty_df, file |-> Connected(f)]

\* load_data (lines 79-98): the frame (or the error raised) and the file as
\* the call leaves it.  The connection is closed in the finally clause.
load_data(t, f) == IF t = "CSV" THEN load_csv(f) ELSE load_sqlite(f)

----------------------------------------------------------------------------
(* Failures of the environment during save_row.  A fault names the call    *)
(* that raises.  For to_csv, "open" fails before the target is truncated;  *)
(* "write" fails after the target was opened for writing, and leaves a     *)
(* prefix of the new text: nothing (keep = -1), the header and the first   *)
(* keep lines (cut = 0), or those and the next line short of the last cut  *)
(* digits of its final field.  Cuts elsewhere in a line are not listed.    *)

MaxRows == 3      \* data rows the file system holds (Spec)
MaxFormRows == 2  \* data rows the file system holds (SpecForm)
MaxCut == 1       \* digits a torn write cuts off the last field

Fault(at, keep, cut) == [at |-> at, keep |-> keep, cut |-> cut]
NoFault == Fault("none", 0, 0)

Faults ==
    {NoFault}
    \cup {Fault(a, 0, 0) : a \in {"open", "connect", "create", "insert", "commit"}}
    \cup {Fault("write", k, c) : k \in -1..(MaxRows - 1), c \in 0..MaxCut}

RECURSIVE Pow10(_)
Pow10(n) == IF n = 0 THEN 1 ELSE 10 * Pow10(n - 1)

\* a write fault the text being written admits
WriteFaultOk(target, fault) ==
    LET n == Len(target.rows) IN
    \/ fault.keep = -1 /\ fault.cut = 0
    \/ fault.keep \in 0..(n - 1) /\ fault.cut = 0
    \/ /\ fault.keep \in 0..(n - 1)
       /\ fault.cut >= 1
       /\ target.rows[fault.keep + 1].total_volume >= Pow10(fault.cut)

\* what a failed write leaves of the text being written
Torn(target, fault) ==
    IF fault.keep = -1 THEN ZeroBytes
    ELSE IF fault.cut = 0 THEN CsvFile(SubSeq(target.rows, 1, fault.keep))
    ELSE CsvFile(Append(SubSeq(target.rows, 1, fault.keep),
                        [target.rows[fault.keep + 1] EXCEPT
                           !.total_volume = @ \div Pow10(fault.cut)]))

Outcome(ok, file, leaked, valid) ==
    [ok |-> ok, file |-> file, leaked |-> leaked, valid |-> valid]

\* save_row, CSV branch (lines 103-111): read_csv raises on a file it cannot
\* parse, to_csv on a path whose directory does not exist
save_csv(f, row, fault) ==
    LET df_row == [row EXCEPT !.exercise = StrCell(row.exercise)]
        existing == read_csv(f)
    IN  IF f.kind = "nodir" \/ (f.kind # "absent" /\ ~existing.ok)
        THEN Outcome(FALSE, f, FALSE, fault = NoFault)
        ELSE LET df_all == (IF f.kind = "absent" THEN <<>> ELSE existing.rows)
                               \o <<df_row>>
                 target == to_csv(df_all)
             IN  CASE fault.at = "none" -> Outcome(TRUE, target, FALSE, TRUE)
                   [] fault.at = "open" -> Outcome(FALSE, f, FALSE, TRUE)
                   [] fault.at = "write" ->
                        IF WriteFaultOk(target, fault)
                        THEN Outcome(FALSE, Torn(target, fault), FALSE, TRUE)
                        ELSE Outcome(FALSE, f, FALSE, FALSE)
                   [] OTHER -> Outcome(FALSE, f, FALSE, FALSE)

\* save_row, SQLite branch (lines 112-145): conn.close() is the last
\* statement, so a call that raises after connect leaves the connection open
save_sqlite(f, row, fault) ==
    LET c == Connected(f) IN
    CASE f.kind = "nodir" -> Outcome(FALSE, f, FALSE, fault = NoFault)
      [] fault.at = "connect" -> Outcome(FALSE, f, FALSE, TRUE)
      [] fault.at \in {"open", "write"} -> Outcome(FALSE, f, FALSE, FALSE)
      [] c.kind = "csv" -> Outcome(FALSE, c, TRUE, fault = NoFault)
      [] fault.at = "create" -> Outcome(FALSE, c, TRUE, TRUE)
      [] fault.at \in {"insert", "commit"} -> Outcome(FALSE, DbFile(TRUE, c.rows), TRUE, TRUE)
      [] OTHER -> Outcome(TRUE, DbFile(TRUE, Append(c.rows, row)), FALSE, TRUE)

\* save_row (lines 101-145)
save_row(t, f, row, fault) ==
    IF t = "CSV" THEN save_csv(f, row, fault) ELSE save_sqlite(f, row, fault)

\* for row in rows: save_row(...), stopping at the first call that raises
\* (lines 357-362; the form handler saves one row, lines 210-219)
RECURSIVE SaveLoop(_, _, _, _, _, _)
SaveLoop(t, f, rows, i, failAt, fault) ==
    IF i > Len(rows)
    THEN [file |-> f, saved |-> i - 1, raised |-> FALSE, leaked |-> FALSE,
          valid |-> failAt \in 1..Len(rows)]
    ELSE LET S == save_row(t, f, rows[i], IF i = failAt THEN fault ELSE NoFault)
         IN  IF S.ok
             THEN SaveLoop(t, S.file, rows, i + 1, failAt, fault)
             ELSE [file |-> S.file, saved |-> i - 1, raised |-> TRUE,
                   leaked |-> S.leaked,
                   valid |-> S.valid /\ (i = failAt \/ fault = NoFault)]

----------------------------------------------------------------------------
(* The form (lines 170-219) and the example loader (lines 322-363).        *)

\* the date the date box and date.today() give
FormDates == {ToOrdinal(2024, 5, 6)}

ExerciseInputs == {"", "  ", "Squat", "NA"}
SetsInputs == {0, 5}
RepsInputs == {0, 5}
WeightInputs == {-1, 0, 80}
WeightUnits == {"kg"}

FormInputs ==
    [workout_date : FormDates, exercise : ExerciseInputs, sets : SetsInputs,
     reps : RepsInputs, weight : WeightInputs, weight_unit : WeightUnits]

\* str.strip() on the texts of ExerciseInputs
Strip(s) == IF s = "  " THEN "" ELSE s

\* the validation as an if/elif chain: the first violated rule only
ValidateFirstOnly(form) ==
    IF Strip(form.exercise) = "" THEN <<"Exercise name is required.">>
    ELSE IF form.sets <= 0 THEN <<"Sets must be greater than 0.">>
    ELSE IF form.reps <= 0 THEN <<"Reps must be greater than 0.">>
    ELSE IF form.weight < 0 THEN <<"Weight cannot be negative.">>
    ELSE <<>>

\* the validation of lines 186-194: one message per violated rule
Validate(form) ==
    (IF Strip(form.exercise) = "" THEN <<"Exercise name is required.">> ELSE <<>>)
    \o (IF form.sets <= 0 THEN <<"Sets must be greater than 0.">> ELSE <<>>)
    \o (IF form.reps <= 0 THEN <<"Reps must be greater than 0.">> ELSE <<>>)
    \o (IF form.weight < 0 THEN <<"Weight cannot be negative.">> ELSE <<>>)

\* new_row (lines 200-209)
new_row(form) ==
    StoredRow(IsoFormat(form.workout_date), Strip(form.exercise), form.sets,
              form.reps, form.weight, form.weight_unit,
              form.sets * form.reps * form.weight)

\* example_rows (lines 328-356)
example_rows(today) ==
    << StoredRow(IsoFormat(today), "Bench Press", 3, 8, 60, "kg", 3 * 8 * 60),
       StoredRow(IsoFormat(today), "Squat", 5, 5, 80, "kg", 5 * 5 * 80),
       StoredRow(IsoFormat(today), "Deadlift", 3, 5, 100, "kg", 3 * 5 * 100) >>

\* what load_data meets at a location: nothing to read yet, a file it cannot
\* read as this backend, or a dataset
LoadKind(t, f) ==
    IF t = "CSV"
    THEN (IF f.kind \in {"absent", "nodir"} THEN "missing"
          ELSE IF f.kind = "csv" THEN "present" ELSE "corrupt")
    ELSE (IF f.kind \in {"absent", "nodir", "empty"} \/ (f.kind = "sqlite" /\ ~f.table)
          THEN "missing"
          ELSE IF f.kind = "sqlite" THEN "present" ELSE "corrupt")

\* history kept with the page: the rules the submitted inputs break
Violated(form) ==
    {r \in {"exercise", "sets", "reps", "weight"} :
        \/ r = "exercise" /\ form.exercise \in {"", "  "}
        \/ r = "sets" /\ form.sets < 1
        \/ r = "reps" /\ form.reps < 1
        \/ r = "weight" /\ form.weight < 0}

\* what a run showed: the event, what load_data at line 163 met and returned
\* (crashed: it raised), the st.error messages of the validation, and the
\* outcome of the save_row calls (saved: how many returned normally)
Page(event, loadKind, frame, violated, errors, save, saved) ==
    [event |-> event, loadKind |-> loadKind, crashed |-> frame.status = "error",
     columns |-> frame.columns, nrows |-> Len(frame.rows),
     violated |-> violated, errors |-> errors, save |-> save, saved |-> saved]

RECURSIVE TotalRows(_)
TotalRows(P) ==
    IF P = {} THEN 0
    ELSE LET p == CHOOSE q \in P : TRUE IN Len(files[p].rows) + TotalRows(P \ {p})

\* the first run: the backend the sidebar defaults to, nothing at the path
StoreIdle ==
    /\ storage_type = "CSV"
    /\ storage_path = default_csv
    /\ connOpen = FALSE
    /\ page = Page("rerun", "missing", init_empty_df, {}, <<>>, "none", 0)
    /\ appended = [p \in Paths |-> <<>>]
    /\ failed = [p \in Paths |-> FALSE]

Init ==
    /\ StoreIdle
    /\ files \in [Paths -> {Absent, NoDir}]
    /\ df_in = <<>>
    /\ graph_mode = "Total weekly volume"
    /\ df_week = <<>>
    /\ agg = <<>>

\* a run after a change in the sidebar: load_data at line 163 and no handler
Sidebar(t, p) ==
    LET L == load_data(t, files[p]) IN
    /\ storage_type' = t
    /\ storage_path' = p
    /\ files' = [files EXCEPT ![p] = L.file]
    /\ page' = Page("rerun", LoadKind(t, files[p]), L.frame, {}, <<>>, "none", 0)
    /\ UNCHANGED <<connOpen, appended, failed, aggVars>>

\* the rest of a run whose load_data at line 163 returned L: the save_row
\* calls, and for the form the reload of line 217
SaveRun(event, violated, rows, L, failAt, fault, reload, cap) ==
    LET t == storage_type
        p == storage_path
        R == SaveLoop(t, L.file, rows, 1, failAt, fault)
        L2 == load_data(t, R.file)
        reloaded == reload /\ ~R.raised
    IN  /\ TotalRows(Paths) + Len(rows) <= cap
        /\ R.valid
        /\ files' = [files EXCEPT ![p] = IF reloaded THEN L2.file ELSE R.file]
        /\ connOpen' = (connOpen \/ R.leaked)
        /\ failed' = [failed EXCEPT ![p] = @ \/ R.raised]
        /\ appended' = [appended EXCEPT ![p] =
                          IF failed'[p] THEN <<>> ELSE @ \o SubSeq(rows, 1, R.saved)]
        /\ page' = Page(event, LoadKind(t, files[p]), L.frame, violated, <<>>,
                        IF R.raised \/ (reloaded /\ L2.frame.status = "error")
                        THEN "failed" ELSE "ok",
                        R.saved)

\* a run that stops short of saving: load_data raised, or the form was rejected
NoSaveRun(event, violated, errors, L) ==
    /\ files' = [files EXCEPT ![storage_path] = L.file]
    /\ page' = Page(event, LoadKind(storage_type, files[storage_path]), L.frame,
                    violated, errors, "none", 0)
    /\ UNCHANGED <<connOpen, appended, failed>>

\* "Add workout" pressed (lines 184-219)
SubmitForm(form, faults, cap) ==
    LET L == load_data(storage_type, files[storage_path])
        errors == Validate(form)
    IN  /\ IF L.frame.status = "error"
           THEN NoSaveRun("submit", Violated(form), <<>>, L)
           ELSE IF errors # <<>>
           THEN NoSaveRun("submit", Violated(form), errors, L)
           ELSE \E fault \in faults :
                   SaveRun("submit", Violated(form), <<new_row(form)>>, L, 1, fault,
                           TRUE, cap)
        /\ UNCHANGED <<storage_type, storage_path, aggVars>>

\* "Load example data" pressed (lines 327-363)
LoadExample(today, faults, cap) ==
    LET L == load_data(storage_type, files[storage_path]) IN
    /\ IF L.frame.status = "error"
       THEN NoSaveRun("example", {}, <<>>, L)
       ELSE \E failAt \in 1..3, fault \in faults :
               /\ fault = NoFault => failAt = 1
               /\ SaveRun("example", {}, example_rows(today), L, failAt, fault, FALSE, cap)
    /\ UNCHANGED <<storage_type, storage_path, aggVars>>

\* the forms Spec submits: the name varies, the numbers are valid
StorageForms == {f \in FormInputs : f.sets = 5 /\ f.reps = 5 /\ f.weight = 80}

\* Spec: runs in an environment whose file and database calls may fail
Next ==
    \/ \E t \in StorageTypes, p \in Paths : Sidebar(t, p)
    \/ \E form \in StorageForms : SubmitForm(form, Faults, MaxRows)
    \/ \E today \in FormDates : LoadExample(today, Faults, MaxRows)

Spec == Init /\ [][Next]_vars

\* SpecForm: sidebar and form runs, every input of the form, no call of the
\* environment failing
NextForm ==
    \/ \E t \in StorageTypes, p \in Paths : Sidebar(t, p)
    \/ \E form \in FormInputs : SubmitForm(form, {NoFault}, MaxFormRows)

SpecForm == Init /\ [][NextForm]_vars

----------------------------------------------------------------------------
(* Weekly Progress (lines 226-260): the chart's data.  SpecAgg draws the   *)
(* frame from the rows below; SpecBucket draws two dates from two windows, *)
(* one across a year boundary and one around the first week of May 2024.   *)

MaxAggRows == 3   \* rows of the frame SpecAgg aggregates
SpanDays == 14    \* days in each window of dates SpecBucket buckets

GraphModes == {"Total weekly volume", "Per-exercise weekly volume"}

\* str < str on the exercise names of the model (code point order)
ExerciseOrder == <<"Bench Press", "Deadlift", "NA", "Squat", "squat">>
StrRank(x) == CHOOSE i \in 1..Len(ExerciseOrder) : ExerciseOrder[i] = x
StrLess(a, b) == StrRank(a) < StrRank(b)

\* .last() in place of .sum(): the volume of the group's last record
SumVolumeLast(rows) == IF rows = <<>> THEN 0 ELSE rows[Len(rows)].total_volume

RECURSIVE SumVolume(_)
SumVolume(rows) ==
    IF rows = <<>> THEN 0 ELSE rows[1].total_volume + SumVolume(Tail(rows))

\* the group keys in ascending order (groupby sorts its keys)
RECURSIVE SortedLabels(_)
SortedLabels(S) ==
    IF S = {} THEN <<>>
    ELSE LET least == CHOOSE a \in S : \A b \in S \ {a} : LabelLess(a, b)
         IN  <<least>> \o SortedLabels(S \ {least})

PairLess(a, b) ==
    \/ LabelLess(a[1], b[1])
    \/ a[1] = b[1] /\ StrLess(a[2], b[2])

RECURSIVE SortedPairs(_)
SortedPairs(S) ==
    IF S = {} THEN <<>>
    ELSE LET least == CHOOSE a \in S : \A b \in S \ {a} : PairLess(a, b)
         IN  <<least>> \o SortedPairs(S \ {least})

\* df_week.groupby("week_label", as_index=False)["total_volume"].sum()
groupby_week(frame) ==
    LET keys == SortedLabels({frame[i].week_label : i \in 1..Len(frame)}) IN
    [k \in 1..Len(keys) |->
        [week_label |-> keys[k],
         total_volume |->
            SumVolume(SelectSeq(frame, LAMBDA r : r.week_label = keys[k]))]]

\* df_week.groupby(["week_label", "exercise"], as_index=False)["total_volume"]
\* .sum(): groupby leaves out the rows whose key is NaN (dropna=True)
groupby_week_exercise(frame) ==
    LET keys == SortedPairs({<<frame[i].week_label, frame[i].exercise.s>> :
                               i \in {j \in 1..Len(frame) : ~frame[j].exercise.nan}})
    IN  [k \in 1..Len(keys) |->
           [week_label |-> keys[k][1],
            exercise |-> keys[k][2],
            total_volume |->
               SumVolume(SelectSeq(frame,
                   LAMBDA r : /\ ~r.exercise.nan
                              /\ r.week_label = keys[k][1]
                              /\ r.exercise.s = keys[k][2]))]]

\* .sort_values("week_label"): a row moves ahead of the rows with a greater label
RECURSIVE sort_values(_)
sort_values(rows) ==
    IF rows = <<>> THEN <<>>
    ELSE LET rest == sort_values(SubSeq(rows, 1, Len(rows) - 1))
             last == rows[Len(rows)]
             before == SelectSeq(rest, LAMBDA r : ~LabelLess(last.week_label, r.week_label))
             after == SelectSeq(rest, LAMBDA r : LabelLess(last.week_label, r.week_label))
         IN  before \o <<last>> \o after

aggregate_total(frame) == sort_values(groupby_week(frame))
aggregate_by_exercise(frame) == sort_values(groupby_week_exercise(frame))

\* a run's chart section for the frame df_in under graph mode m
Chart(m) ==
    /\ graph_mode' = m
    /\ df_week' = add_week_columns(df_in)
    /\ agg' = IF df_in = <<>> THEN <<>>
              ELSE IF m = "Total weekly volume"
              THEN aggregate_total(df_week')
              ELSE aggregate_by_exercise(df_week')
    /\ UNCHANGED <<df_in, storeVars>>

NextAgg == \E m \in GraphModes : Chart(m)

AggDates == {ToOrdinal(2023, 12, 31), ToOrdinal(2024, 1, 1), ToOrdinal(2024, 1, 3)}

AggRows ==
    {FrameRow(d, StrCell(ex), 5, 5, w, "kg", 5 * 5 * w) :
        d \in AggDates, ex \in {"Squat", "squat"}, w \in {40, 80}}

RECURSIVE SeqsUpTo(_, _)
SeqsUpTo(S, n) ==
    IF n = 0 THEN {<<>>}
    ELSE LET shorter == SeqsUpTo(S, n - 1)
         IN  shorter \cup {Append(q, x) : q \in shorter, x \in S}

InitAgg ==
    /\ StoreIdle
    /\ files = [p \in Paths |-> Absent]
    /\ df_in \in SeqsUpTo(AggRows, MaxAggRows)
    /\ graph_mode = "Total weekly volume"
    /\ df_week = <<>>
    /\ agg = <<>>

SpecAgg == InitAgg /\ [][NextAgg]_vars

BucketDates ==
    {ToOrdinal(2023, 12, 25) + k : k \in 0..(SpanDays - 1)}
    \cup {ToOrdinal(2024, 4, 29) + k : k \in 0..(SpanDays - 1)}

InitBucket ==
    /\ StoreIdle
    /\ files = [p \in Paths |-> Absent]
    /\ \E d1 \in BucketDates, d2 \in BucketDates :
          df_in = << FrameRow(d1, StrCell("Squat"), 5, 5, 80, "kg", 2000),
                     FrameRow(d2, StrCell("Squat"), 5, 5, 80, "kg", 2000) >>
    /\ graph_mode = "Total weekly volume"
    /\ df_week = <<>>
    /\ agg = <<>>

SpecBucket == InitBucket /\ [][NextAgg]_vars

----------------------------------------------------------------------------
(* Properties.                                                             *)

\* the backend a file on disk belongs to
BackendOf(f) == IF f.kind = "sqlite" THEN "SQLite" ELSE "CSV"

\* an appended row as a load is to return it: the date a date, the name a string
Expected(row) ==
    [row EXCEPT !.date = ToDatetime(row.date), !.exercise = StrCell(row.exercise)]

\* C1: after any sequence of save_row calls on a location that all returned
\* normally, load_data on that location succeeds and returns, for every row
\* appended, a row equal to it field by field (the date as a date).
C1_AppendThenLoad ==
    \A p \in Paths :
        (~failed[p] /\ appended[p] # <<>>) =>
            LET L == load_data(BackendOf(files[p]), files[p]).frame IN
            /\ L.status = "ok"
            /\ \A i \in 1..Len(appended[p]) :
                  \E j \in 1..Len(L.rows) : L.rows[j] = Expected(appended[p][i])

\* C1 for the relational backend alone (holds)
C1_Sqlite ==
    \A p \in Paths :
        (~failed[p] /\ appended[p] # <<>> /\ files[p].kind = "sqlite") =>
            LET L == load_data("SQLite", files[p]).frame IN
            /\ L.status = "ok"
            /\ \A i \in 1..Len(appended[p]) :
                  \E j \in 1..Len(L.rows) : L.rows[j] = Expected(appended[p][i])

\* C2: a run whose first save_row call raised leaves the data as it was: a
\* load after the run returns what a load before the call returned.
C2_FailedAppendLeavesData ==
    [][(page'.save = "failed" /\ page'.saved = 0) =>
          load_data(storage_type, files'[storage_path]).frame
              = load_data(storage_type, files[storage_path]).frame]_vars

\* C2 for the relational backend alone (holds)
C2_Sqlite ==
    [][(page'.save = "failed" /\ page'.saved = 0 /\ storage_type = "SQLite") =>
          load_data(storage_type, files'[storage_path]).frame
              = load_data(storage_type, files[storage_path]).frame]_vars

\* C3: when load_data meets a file that is present and is not a dataset of
\* the selected backend, it raises; it does not return an empty frame.
C3_CorruptSurfacesError == page.loadKind = "corrupt" => page.crashed

\* C4: when the load_data of a run meets a location with nothing to read yet
\* (no CSV file; no database file or no workouts table), it returns the
\* empty frame with the seven columns and does not raise.
C4_MissingLoadsEmpty ==
    page.loadKind = "missing" =>
        /\ ~page.crashed
        /\ page.nrows = 0
        /\ Len(page.columns) = 7 /\ page.columns = COLUMNS

\* C4 for paths whose directory exists, for either backend on every file the
\* program leaves behind (holds)
C4_InExistingDirectory ==
    \A t \in StorageTypes, p \in Paths :
        (LoadKind(t, files[p]) = "missing" /\ files[p].kind # "nodir") =>
            LET L == load_data(t, files[p]).frame IN
            L.status = "ok" /\ L.rows = <<>> /\ L.columns = COLUMNS

\* Monday 2024-05-06, the anchor of the Monday-to-Sunday spans
KnownMonday == ToOrdinal(2024, 5, 6)
DaysSinceMonday(d) == (d - KnownMonday) % 7
SpanIndex(d) == (d - KnownMonday) \div 7

ValidYMD(t) == t[2] \in 1..12 /\ t[3] \in 1..DaysInMonth(t[1], t[2])

\* C5: add_week_columns gives every date d the week_start d minus its days
\* since Monday, a Monday on or before d, labelled by its ISO date; two dates
\* get equal labels exactly when they lie in the same Monday-to-Sunday span,
\* and the label of an earlier span sorts first, across year boundaries too.
C5_WeekBuckets ==
    \A i \in 1..Len(df_week), j \in 1..Len(df_week) :
        LET a == df_week[i]
            b == df_week[j]
        IN  /\ a.date = df_in[i].date
            /\ a.week_start = a.date - DaysSinceMonday(a.date)
            /\ DaysSinceMonday(a.week_start) = 0
            /\ a.week_start <= a.date /\ a.date <= a.week_start + 6
            /\ ValidYMD(a.week_label)
            /\ ToOrdinal(a.week_label[1], a.week_label[2], a.week_label[3]) = a.week_start
            /\ (a.week_label = b.week_label) <=> (SpanIndex(a.date) = SpanIndex(b.date))
            /\ SpanIndex(a.date) < SpanIndex(b.date)
                  => LabelLess(a.week_label, b.week_label)

\* C5 witness: Sunday 2023-12-31 and Monday 2024-01-01 were bucketed
C5_Witness ==
    /\ Len(df_week) = 2
    /\ df_week[1].date = ToOrdinal(2023, 12, 31)
    /\ df_week[2].date = ToOrdinal(2024, 1, 1)
    /\ df_week[1].week_label = <<2023, 12, 25>>
    /\ df_week[2].week_label = <<2024, 1, 1>>

RECURSIVE SumAt(_, _)
SumAt(frame, I) ==
    IF I = {} THEN 0
    ELSE LET i == CHOOSE k \in I : TRUE
         IN  frame[i].total_volume + SumAt(frame, I \ {i})

Charted == Len(df_week) = Len(df_in)

\* C6: the total-weekly aggregation has exactly one row per week_label
\* present, each with the sum of total_volume of that week's records, in
\* ascending order of label; it is empty for an empty frame, and one row
\* with the sum of all records when they all fall in one week.
C6_TotalWeekly ==
    (graph_mode = "Total weekly volume" /\ Charted) =>
        LET labels == {df_week[i].week_label : i \in 1..Len(df_week)} IN
        /\ {agg[k].week_label : k \in 1..Len(agg)} = labels
        /\ Len(agg) = Cardinality(labels)
        /\ \A k \in 1..Len(agg) :
              agg[k].total_volume =
                 SumAt(df_week,
                       {i \in 1..Len(df_week) : df_week[i].week_label = agg[k].week_label})
        /\ \A k \in 1..Len(agg), l \in 1..Len(agg) :
              k < l => LabelLess(agg[k].week_label, agg[l].week_label)
        /\ df_in = <<>> => agg = <<>>
        /\ (df_in # <<>> /\ \A i \in 1..Len(df_in), j \in 1..Len(df_in) :
                               SpanIndex(df_in[i].date) = SpanIndex(df_in[j].date))
              => Len(agg) = 1 /\ agg[1].total_volume = SumAt(df_in, 1..Len(df_in))

\* C6 witness: three records, two of them in one week with different
\* volumes, gave two rows, the earlier week first
C6_Witness ==
    /\ graph_mode = "Total weekly volume"
    /\ Len(df_in) = 3
    /\ Len(df_week) = 3
    /\ Len(agg) = 2
    /\ agg[1].week_label = <<2023, 12, 25>>
    /\ agg[2] = [week_label |-> <<2024, 1, 1>>, total_volume |-> 3000]

\* the per-exercise aggregation of a frame with week columns agrees with the
\* records: one row per (week_label, exercise) pair present, names compared
\* as they are, each row the sum over its pair, and the rows of a week
\* adding up to the week's row of the total-weekly aggregation
PerExerciseOk(w) ==
    LET a == aggregate_by_exercise(w)
        t == aggregate_total(w)
        pairs == {<<w[i].week_label, w[i].exercise>> : i \in 1..Len(w)}
    IN  /\ Len(a) = Cardinality(pairs)
        /\ \A k \in 1..Len(a) :
              a[k].total_volume =
                 SumAt(w, {i \in 1..Len(w) :
                              /\ w[i].week_label = a[k].week_label
                              /\ w[i].exercise = StrCell(a[k].exercise)})
        /\ \A k \in 1..Len(t) :
              t[k].total_volume =
                 SumAt(a, {i \in 1..Len(a) : a[i].week_label = t[k].week_label})

\* C7: the per-exercise weekly aggregation of the frame a run loads has one
\* row per distinct (week_label, exercise) pair, each the sum over its
\* records, and its per-week sums equal the total-weekly rows.
C7_PerExercise ==
    LET frame == load_data(storage_type, files[storage_path]).frame IN
    (frame.status = "ok" /\ frame.rows # <<>>) =>
        PerExerciseOk(add_week_columns(frame.rows))

\* C7 on frames whose exercise names are all strings (holds, SpecAgg)
C7_OnStrings == Charted => PerExerciseOk(df_week)

RuleMessage(r) ==
    CASE r = "exercise" -> "Exercise name is required."
      [] r = "sets" -> "Sets must be greater than 0."
      [] r = "reps" -> "Reps must be greater than 0."
      [] r = "weight" -> "Weight cannot be negative."

\* C8: a submission that breaks a validation rule calls save_row not at
\* all, leaves the rows on disk and the history of appends as they were, and
\* shows one message for each rule broken, all of them in the same run.
C8_RejectedNeverStored ==
    [][(page'.event = "submit" /\ ~page'.crashed /\ page'.violated # {}) =>
          /\ page'.save = "none"
          /\ \A p \in Paths :
                /\ files'[p].rows = files[p].rows
                /\ \/ files'[p].kind = files[p].kind
                   \/ files[p].kind = "absent" /\ files'[p].kind = "empty"
          /\ appended' = appended
          /\ connOpen' = connOpen
          /\ Len(page'.errors) = Cardinality(page'.violated)
          /\ {page'.errors[i] : i \in 1..Len(page'.errors)}
                = {RuleMessage(r) : r \in page'.violated}]_vars

\* C8 witness: with a row on disk, a submission with an empty name and zero
\* sets was rejected with two messages
C8_Witness ==
    /\ page.event = "submit"
    /\ page.violated = {"exercise", "sets"}
    /\ Len(page.errors) = 2
    /\ page.save = "none"
    /\ \E p \in Paths : files[p].rows # <<>>

\* C9: every row on disk has total_volume = sets * reps * weight, after any
\* sequence of runs.
C9_VolumeInvariant ==
    \A p \in Paths : \A i \in 1..Len(files[p].rows) :
        LET r == files[p].rows[i] IN r.total_volume = r.sets * r.reps * r.weight

\* C10: between runs no database connection is open.
C10_NoConnectionLeft == ~connOpen

====
